---- MODULE Spec2Model ----
(***************************************************************************)
(* Model of the chatbot gateway (server/index.js): the in-memory session   *)
(* table, the weekly prompt counter and the handlers of the HTTP routes.   *)
(* Node runs each handler to completion between awaits, so POST /api/chat  *)
(* is two steps: from the start of the handler to the await of the OpenAI  *)
(* call, and from the settled call to the response.                        *)
(***************************************************************************)
EXTENDS Integers, Sequences, FiniteSets, Bags, TLC

\* ---- bounds of the model ------------------------------------------------
MaxSessions == 2
MaxReqs == 2
MaxChats == 2
MaxTime == 7
MaxChatsHist == 11

\* ---- program constants --------------------------------------------------
\* days in the window of resetWeekly (7 * 24 * 60 * 60 * 1000 ms); time is in days
WEEK == 7
\* the history cap of the chat handler
MAX_HISTORY == 20
\* default of MAX_PROMPTS_PER_WEEK
DEFAULT_MAX_PROMPTS == 4000

\* ---- inputs -------------------------------------------------------------
Ids == 1..MaxSessions
\* userId of a request body: 0 is a missing userId, MaxSessions + 1 is never issued
NoId == 0
UserIdInputs == 0..(MaxSessions + 1)
Msgs == {"m1"}
\* the messages of the long conversations
HistMsgs == {"m1", "m2"}
\* message of a request body: "" is a missing or empty message
NoMsg == ""
MsgInputs == Msgs \cup {NoMsg}
Replies == {"a1"}
\* process.env.MAX_PROMPTS_PER_WEEK: <<>> is unset or not a number
EnvMaxValues == {<<1>>, <<2>>}
\* clock advances between events
TickSteps == {3, 4}
\* what the awaited axios.post settles with
NoChoices == [kind |-> "nochoices", status |-> 200, content |-> ""]
Resolved == {[kind |-> "ok", status |-> 200, content |-> a] : a \in Replies} \cup {NoChoices}
Rejected == {[kind |-> "http", status |-> s, content |-> ""] : s \in {401, 429, 503}}
              \cup {[kind |-> "network", status |-> 0, content |-> ""]}

VARIABLES
  MAX_PROMPTS_PER_WEEK,  \* configuration, fixed at startup
  userSessions,          \* userId -> conversation history
  count,                 \* promptCounter.count
  weekStart,             \* promptCounter.weekStart
  now,                   \* the clock read by new Date()
  inflight,              \* bag of the chat handlers suspended on the OpenAI call
  out,                   \* the last message sent: a response, or the call to OpenAI
  pushed,                \* history: every message ever pushed, per session
  passed,                \* history: requests that passed the quota check since the last reset
  succeeded,             \* history: requests answered with a 200 since the last reset
  client                 \* the state of one page of the browser client (App.tsx)

vars == <<MAX_PROMPTS_PER_WEEK, userSessions, count, weekStart, now, inflight, out, pushed, passed,
          succeeded, client>>

\* ---- pure helpers -------------------------------------------------------
ParseMaxPrompts(env) ==
  IF env = <<>> \/ env[1] = 0 THEN DEFAULT_MAX_PROMPTS ELSE env[1]

\* mutant: the message of the user is stored with the role of the assistant
UserMsgAsAssistant(m) == [role |-> "assistant", content |-> m]
UserMsg(m) == [role |-> "user", content |-> m]
\* mutant: the reply is stored as one more message of the user
AssistantMsgAsUser(a) == [role |-> "user", content |-> a]
AssistantMsg(a) == [role |-> "assistant", content |-> a]
SystemMsg == [role |-> "system", content |-> "sys"]

\* promptCounter.resetWeekly: is the reset due at the current clock
WeeksSince == (now - weekStart) \div WEEK
\* mutant: the reset waits for more than one whole week
ResetDueStrict == WeeksSince > 1
ResetDue == WeeksSince >= 1
\* mutant: the reset moves the start of the window and keeps the count
CountKept == count
CountAfterReset == IF ResetDue THEN 0 ELSE count
\* mutant: the reset clears the count and leaves the start of the window
WeekStartKept == weekStart
WeekStartAfterReset == IF ResetDue THEN now ELSE weekStart
PassedAfterReset == IF ResetDue THEN 0 ELSE passed
SucceededAfterReset == IF ResetDue THEN 0 ELSE succeeded

\* mutant: the remaining count is not clamped at zero
RemainingUnclamped(c) == MAX_PROMPTS_PER_WEEK - c
\* Math.max(0, MAX_PROMPTS_PER_WEEK - promptCounter.count)
Remaining(c) == IF MAX_PROMPTS_PER_WEEK - c > 0 THEN MAX_PROMPTS_PER_WEEK - c ELSE 0

\* mutant: the validation forgets the message
ValidateUserIdOnly(userId, message) ==
  IF userId = NoId THEN 400
  ELSE IF userId \notin DOMAIN userSessions THEN 404
  ELSE 0

\* validation of the chat body: 400, 404 or 0 (passes)
Validate(userId, message) ==
  IF userId = NoId \/ message = NoMsg THEN 400
  ELSE IF userId \notin DOMAIN userSessions THEN 404
  ELSE 0

\* mutant: the limit check is off by one
LimitReachedStrict(c) == c > MAX_PROMPTS_PER_WEEK
LimitReached(c) == c >= MAX_PROMPTS_PER_WEEK

\* mutant: the increment is lost
IncrementLost(c) == c
\* promptCounter.count++
Increment(c) == c + 1

\* mutant: the history is left out of the call
AssembleWithoutHistory(conversation, message) ==
  <<SystemMsg, UserMsg(message)>>

\* messages sent to OpenAI
Assemble(conversation, message) ==
  <<SystemMsg>> \o conversation \o <<UserMsg(message)>>

\* mutant: the reply is pushed before the user message
PushReplyFirst(conversation, message, aiResponse) ==
  conversation \o <<AssistantMsg(aiResponse), UserMsg(message)>>

\* conversation.push(user, assistant)
Push(conversation, message, aiResponse) ==
  conversation \o <<UserMsg(message), AssistantMsg(aiResponse)>>

\* mutant: the cap keeps the oldest 20 messages instead of the newest
TruncateKeepOldest(conversation) ==
  IF Len(conversation) > MAX_HISTORY
  THEN SubSeq(conversation, 1, MAX_HISTORY)
  ELSE conversation

\* conversation.splice(0, conversation.length - 20) when longer than 20
Truncate(conversation) ==
  IF Len(conversation) > MAX_HISTORY
  THEN SubSeq(conversation, Len(conversation) - MAX_HISTORY + 1, Len(conversation))
  ELSE conversation

\* mutant: the status of the upstream response is passed through
CatchStatusPassThrough(err) ==
  IF err.kind = "http" THEN err.status ELSE 500

\* status chosen by the catch block for error.response?.status
CatchStatus(err) ==
  IF err.kind = "http" /\ err.status = 401 THEN 500
  ELSE IF err.kind = "http" /\ err.status = 429 THEN 429
  ELSE 500

\* ---- responses ----------------------------------------------------------
NoResp == [op |-> "none", status |-> 0, code |-> "", userId |-> 0,
           history |-> <<>>, messages |-> <<>>, promptsUsed |-> -1, remaining |-> -1,
           weekStart |-> -1, response |-> ""]
Response(op, status) == [NoResp EXCEPT !.op = op, !.status = status]
\* axios.post to the chat completions endpoint
OpenAICall(messages) == [NoResp EXCEPT !.op = "openai", !.messages = messages]

\* the locals a suspended handler still uses: userId and message
Request(userId, message) == [userId |-> userId, message |-> message]
Awaiting(q) == BagIn(q, inflight)
NumAwaiting == BagCardinality(inflight)

RECURSIVE SumLen(_, _)
SumLen(f, S) == IF S = {} THEN 0
                ELSE LET x == CHOOSE y \in S : TRUE IN Len(f[x]) + SumLen(f, S \ {x})
PushedPairs == SumLen(pushed, DOMAIN pushed) \div 2

\* ---- the browser client (App.tsx): pure parts ----------------------------
\* the code of the 429 that the client tells apart
QuotaCode == "WEEKLY_LIMIT_EXCEEDED"
\* stats === null
NoStats == [promptsUsed |-> -1, maxPrompts |-> -1, remaining |-> -1]
\* error === null
NoError == ""
\* the useState initial values; fetching counts the chat requests of this
\* page that were sent and have not settled yet
ClientStart == [userId |-> NoId, isInitialized |-> FALSE, inputMessage |-> NoMsg,
                isLoading |-> FALSE, error |-> NoError, messages |-> <<>>,
                stats |-> NoStats, fetching |-> 0]

\* mutant: the input is disabled only while a request is loading
InputEnabledDespiteError(c) == c.isInitialized /\ ~c.isLoading
\* the input is rendered and not disabled
InputEnabled(c) == c.isInitialized /\ ~(c.isLoading \/ c.error # NoError)
\* the send button is rendered and not disabled
ButtonEnabled(c) ==
  c.isInitialized /\ ~(c.inputMessage = NoMsg \/ c.isLoading \/ c.error # NoError)
\* the first line of sendMessage returns at once
SendReturns(c) == c.inputMessage = NoMsg \/ c.userId = NoId \/ c.isLoading

\* mutant: sendMessage does not set isLoading
SendingNotLoading(c) ==
  [c EXCEPT !.messages = Append(@, UserMsg(c.inputMessage)),
            !.inputMessage = NoMsg,
            !.error = NoError,
            !.fetching = @ + 1]

\* sendMessage from the guard to the fetch; React renders the new state at
\* the end of the click or key event, before the next event is handled
Sending(c) ==
  [c EXCEPT !.messages = Append(@, UserMsg(c.inputMessage)),
            !.inputMessage = NoMsg,
            !.isLoading = TRUE,
            !.error = NoError,
            !.fetching = @ + 1]

\* sendMessage from the settled fetch to the end of finally
Received(c, resp) ==
  IF resp.status # 200
  THEN [c EXCEPT !.error = IF resp.code = QuotaCode THEN "quota" ELSE "failed",
                 !.isLoading = FALSE,
                 !.fetching = @ - 1]
  ELSE [c EXCEPT !.messages = Append(@, AssistantMsg(resp.response)),
                 !.stats = IF c.stats = NoStats THEN NoStats
                           ELSE [c.stats EXCEPT !.promptsUsed = @ + 1,
                                                !.remaining = resp.remaining],
                 !.isLoading = FALSE,
                 !.fetching = @ - 1]

\* ---- initial state ------------------------------------------------------
InitWith(envs) ==
  /\ MAX_PROMPTS_PER_WEEK \in {ParseMaxPrompts(e) : e \in envs}
  /\ userSessions = <<>>
  /\ count = 0
  /\ now = 0
  /\ weekStart = 0
  /\ inflight = EmptyBag
  /\ out = NoResp
  /\ pushed = <<>>
  /\ passed = 0
  /\ succeeded = 0
  /\ client = ClientStart

Init == InitWith(EnvMaxValues)

\* ---- POST /api/user/new -------------------------------------------------
\* mutant: creating a session empties the histories of the others
NewUserResetting(id) ==
  /\ id \in Ids \ DOMAIN userSessions
  /\ id = Cardinality(DOMAIN userSessions) + 1
  /\ userSessions' = [u \in DOMAIN userSessions \cup {id} |-> <<>>]
  /\ pushed' = pushed @@ (id :> <<>>)
  /\ out' = [Response("new", 200) EXCEPT !.userId = id]
  /\ UNCHANGED <<MAX_PROMPTS_PER_WEEK, count, weekStart, now, inflight, passed, succeeded>>

\* uuidv4() returns an id not issued before: the ids are issued in order
NewUser(id) ==
  /\ id \in Ids \ DOMAIN userSessions
  /\ id = Cardinality(DOMAIN userSessions) + 1
  /\ userSessions' = userSessions @@ (id :> <<>>)
  /\ pushed' = pushed @@ (id :> <<>>)
  /\ out' = [Response("new", 200) EXCEPT !.userId = id]
  /\ UNCHANGED <<MAX_PROMPTS_PER_WEEK, count, weekStart, now, inflight, passed, succeeded>>

\* ---- GET /api/user/:userId/history --------------------------------------
\* mutant: an unknown id is answered with an empty history
GetHistoryLenient(userId) ==
  /\ out' = [Response("history", 200)
               EXCEPT !.userId = userId,
                      !.history = IF userId \in DOMAIN userSessions
                                  THEN userSessions[userId] ELSE <<>>]
  /\ UNCHANGED <<MAX_PROMPTS_PER_WEEK, userSessions, count, weekStart, now, inflight, pushed, passed, succeeded>>

GetHistory(userId) ==
  /\ out' = IF userId \notin DOMAIN userSessions
             THEN [Response("history", 404) EXCEPT !.userId = userId]
             ELSE [Response("history", 200) EXCEPT !.userId = userId,
                                                      !.history = userSessions[userId]]
  /\ UNCHANGED <<MAX_PROMPTS_PER_WEEK, userSessions, count, weekStart, now, inflight, pushed, passed, succeeded>>

\* ---- GET /api/stats -----------------------------------------------------
Stats ==
  /\ count' = CountAfterReset
  /\ weekStart' = WeekStartAfterReset
  /\ passed' = PassedAfterReset
  /\ succeeded' = SucceededAfterReset
  /\ out' = [Response("stats", 200) EXCEPT !.promptsUsed = CountAfterReset,
                                               !.remaining = Remaining(CountAfterReset),
                                               !.weekStart = WeekStartAfterReset]
  /\ UNCHANGED <<MAX_PROMPTS_PER_WEEK, userSessions, now, inflight, pushed>>

\* ---- GET /api/health ----------------------------------------------------
Health ==
  /\ out' = [Response("health", 200) EXCEPT !.promptsUsed = count]
  /\ UNCHANGED <<MAX_PROMPTS_PER_WEEK, userSessions, count, weekStart, now, inflight, pushed, passed, succeeded>>

\* ---- POST /api/chat, up to the await ------------------------------------
ChatStart(userId, message) ==
  /\ IF Validate(userId, message) # 0
     THEN /\ out' = Response("chat", Validate(userId, message))
          /\ UNCHANGED <<count, weekStart, passed, succeeded, inflight>>
     ELSE /\ weekStart' = WeekStartAfterReset
          /\ succeeded' = SucceededAfterReset
          /\ count' = CountAfterReset
          /\ IF LimitReached(CountAfterReset)
             THEN /\ out' = [Response("chat", 429) EXCEPT !.code = "WEEKLY_LIMIT_EXCEEDED"]
                  /\ passed' = PassedAfterReset
                  /\ UNCHANGED inflight
             ELSE /\ out' = OpenAICall(Assemble(userSessions[userId], message))
                  /\ inflight' = inflight (+) SetToBag({Request(userId, message)})
                  /\ passed' = PassedAfterReset + 1
  /\ UNCHANGED <<MAX_PROMPTS_PER_WEEK, userSessions, now, pushed>>

\* ---- the catch block of POST /api/chat ----------------------------------
Catch(q, err) ==
  /\ out' = Response("chat", CatchStatus(err))
  /\ inflight' = inflight (-) SetToBag({q})
  /\ UNCHANGED <<MAX_PROMPTS_PER_WEEK, userSessions, count, weekStart, now, pushed, passed, succeeded>>

\* ---- POST /api/chat, the awaited call resolved --------------------------
ChatReply(q, data) ==
  /\ Awaiting(q)
  /\ data \in Resolved
  /\ IF data.kind = "nochoices"
     THEN Catch(q, data)
     ELSE LET conversation == Truncate(Push(userSessions[q.userId], q.message, data.content))
          IN /\ userSessions' = [userSessions EXCEPT ![q.userId] = conversation]
             /\ pushed' = [pushed EXCEPT ![q.userId] = Push(@, q.message, data.content)]
             /\ count' = Increment(count)
             /\ succeeded' = succeeded + 1
             /\ out' = [Response("chat", 200)
                           EXCEPT !.response = data.content,
                                  !.remaining = Remaining(Increment(count))]
             /\ inflight' = inflight (-) SetToBag({q})
             /\ UNCHANGED <<MAX_PROMPTS_PER_WEEK, weekStart, now, passed>>

\* ---- POST /api/chat, the awaited call rejected --------------------------
ChatError(q, err) ==
  /\ Awaiting(q)
  /\ err \in Rejected
  /\ Catch(q, err)

\* ---- the clock ----------------------------------------------------------
Tick(d) ==
  /\ now + d <= MaxTime
  /\ now' = now + d
  /\ UNCHANGED <<MAX_PROMPTS_PER_WEEK, userSessions, count, weekStart, inflight, out, pushed, passed, succeeded>>

\* a request that would reach the OpenAI call is explored only within the budget
Admits(userId, message) ==
  Validate(userId, message) = 0 /\ ~LimitReached(CountAfterReset)
InBudget(cap, userId, message) ==
  Admits(userId, message) =>
    (NumAwaiting < MaxReqs /\ PassedAfterReset < cap /\ PushedPairs + NumAwaiting < cap)

\* the requests of Next, NextHist and NextSilent come from any client; the
\* page modelled in client takes no step there
Next ==
  \/ \E id \in Ids : NewUser(id) /\ UNCHANGED client
  \/ \E userId \in UserIdInputs \ {NoId} : GetHistory(userId) /\ UNCHANGED client
  \/ Stats /\ UNCHANGED client
  \/ Health /\ UNCHANGED client
  \/ \E userId \in UserIdInputs, message \in MsgInputs :
        InBudget(MaxChats, userId, message) /\ ChatStart(userId, message) /\ UNCHANGED client
  \/ \E q \in BagToSet(inflight), data \in Resolved : ChatReply(q, data) /\ UNCHANGED client
  \/ \E q \in BagToSet(inflight), err \in Rejected : ChatError(q, err) /\ UNCHANGED client
  \/ \E d \in TickSteps : Tick(d) /\ UNCHANGED client

Spec == Init /\ [][Next]_vars

\* ---- long conversations: one session, default quota, frozen clock --------
InitHist == InitWith({<<>>, <<0>>})

NextHist ==
  \/ NewUser(1) /\ UNCHANGED client
  \/ \E message \in HistMsgs :
        InBudget(MaxChatsHist, 1, message) /\ ChatStart(1, message) /\ UNCHANGED client
  \/ \E q \in BagToSet(inflight) :
        ChatReply(q, [kind |-> "ok", status |-> 200, content |-> "a1"]) /\ UNCHANGED client
  \/ \E q \in BagToSet(inflight) :
        ChatError(q, [kind |-> "network", status |-> 0, content |-> ""]) /\ UNCHANGED client

SpecHist == InitHist /\ [][NextHist]_vars

\* ---- a silent upstream: the OpenAI call never settles ----------------------
\* axios.post is given no timeout option and the handler sets no timer, so with
\* an upstream that accepts the call and never answers no step resumes a
\* suspended handler; the server goes on serving everything else
NextSilent ==
  \/ \E id \in Ids : NewUser(id) /\ UNCHANGED client
  \/ \E userId \in UserIdInputs \ {NoId} : GetHistory(userId) /\ UNCHANGED client
  \/ Stats /\ UNCHANGED client
  \/ Health /\ UNCHANGED client
  \/ \E userId \in UserIdInputs, message \in MsgInputs :
        InBudget(MaxChats, userId, message) /\ ChatStart(userId, message) /\ UNCHANGED client
  \/ \E d \in TickSteps : Tick(d) /\ UNCHANGED client

\* the event loop runs a handler for every request that arrives
SpecSilent == Init /\ [][NextSilent]_vars /\ WF_vars(NextSilent)

\* ---- one page of the browser client and the server -----------------------
\* A fetch of the page and the run of the handler it starts are one step, and
\* so are the answer of the server and the continuation of sendMessage: the
\* page does nothing else while a fetch of its own is under way.
serverVars == <<MAX_PROMPTS_PER_WEEK, userSessions, count, weekStart, now, inflight, out, pushed,
                passed, succeeded>>

\* initializeUser with no id in sessionStorage: POST /api/user/new, setUserId
ClientNewUser(id) ==
  /\ client.userId = NoId /\ client.error = NoError
  /\ NewUser(id)
  /\ client' = [client EXCEPT !.userId = id]

\* initializeUser: POST /api/user/new fails, setError and return
ClientNewUserFailed ==
  /\ client.userId = NoId /\ client.error = NoError
  /\ client' = [client EXCEPT !.error = "session"]
  /\ UNCHANGED serverVars

\* initializeUser: loadUserHistory and loadStats, then setIsInitialized(true);
\* the read of the history changes nothing on the server
ClientLoad ==
  /\ client.userId # NoId /\ ~client.isInitialized
  /\ Stats
  /\ client' = [client EXCEPT !.messages = userSessions[client.userId],
                              !.stats = [promptsUsed |-> out'.promptsUsed,
                                         maxPrompts |-> MAX_PROMPTS_PER_WEEK,
                                         remaining |-> out'.remaining],
                              !.isInitialized = TRUE]

\* onChange of the input
ClientType(text) ==
  /\ InputEnabled(client)
  /\ text # client.inputMessage
  /\ client' = [client EXCEPT !.inputMessage = text]
  /\ UNCHANGED serverVars

\* a click on the send button or Enter in the input reaches sendMessage
SendEvent == ButtonEnabled(client) \/ InputEnabled(client)

\* sendMessage, the fetch reaches the server: up to the await of the handler,
\* or up to the end of sendMessage when the handler answers at once
ClientSend ==
  /\ SendEvent /\ ~SendReturns(client)
  /\ ChatStart(client.userId, client.inputMessage)
  /\ client' = IF out'.op = "openai" THEN Sending(client)
               ELSE Received(Sending(client), out')

\* sendMessage, the fetch rejects (the server is not reachable): catch, finally
ClientSendUnreachable ==
  /\ SendEvent /\ ~SendReturns(client)
  /\ client' = Received(Sending(client), NoResp)
  /\ UNCHANGED serverVars

\* the handler resumes and answers; sendMessage runs from the await to its end
ClientReply(q, data) == ChatReply(q, data) /\ client' = Received(client, out')
ClientError(q, err) == ChatError(q, err) /\ client' = Received(client, out')

NextClient ==
  \/ \E id \in Ids : ClientNewUser(id)
  \/ ClientNewUserFailed
  \/ ClientLoad
  \/ \E text \in MsgInputs : ClientType(text)
  \/ InBudget(MaxChats, client.userId, client.inputMessage) /\ ClientSend
  \/ ClientSendUnreachable
  \/ \E q \in BagToSet(inflight), data \in Resolved : ClientReply(q, data)
  \/ \E q \in BagToSet(inflight), err \in Rejected : ClientError(q, err)
  \/ \E d \in TickSteps : Tick(d) /\ UNCHANGED client

SpecClient == Init /\ [][NextClient]_vars

\* ---- properties ---------------------------------------------------------
Min(a, b) == IF a < b THEN a ELSE b
LastN(seq, n) == SubSeq(seq, Len(seq) - Min(n, Len(seq)) + 1, Len(seq))
IsSuffix(t, seq) == Len(t) <= Len(seq) /\ t = LastN(seq, Len(t))
\* a request passes the quota check and suspends on the OpenAI call in this step
Admitted == BagCardinality(inflight') = BagCardinality(inflight) + 1
\* a suspended handler resumes and answers in this step
Settled == BagCardinality(inflight') = BagCardinality(inflight) - 1
WindowElapsed == now - weekStart >= WEEK
\* what every step of ChatStart shows (it writes a chat response or the call to
\* OpenAI and resumes nothing): the steps that fail it are not looked at closer
MayBeChatStart == out'.op \in {"chat", "openai"} /\ ~Settled /\ UNCHANGED <<now, pushed>>

\* C1: in every reachable state the quota count is at most the configured
\* maximum, whatever the number and interleaving of chat requests in flight.
C1_CountWithinMax == count <= MAX_PROMPTS_PER_WEEK

\* C2: the quota decision and charge are one atomic step, so within one quota
\* window at most MAX_PROMPTS_PER_WEEK requests pass the quota check and reach
\* the inference call.
C2_AtMostMaxPass == passed <= MAX_PROMPTS_PER_WEEK

C4_HistoryIsRecentSuffix ==
  \A u \in DOMAIN userSessions :
    /\ Len(userSessions[u]) <= MAX_HISTORY
    /\ userSessions[u] = LastN(pushed[u], MAX_HISTORY)

\* a history that has been cut: more was pushed than is kept
C4_Witness ==
  \E u \in DOMAIN userSessions :
    Len(pushed[u]) > MAX_HISTORY /\ Len(userSessions[u]) = MAX_HISTORY

\* C5: with the count at the maximum in the current window, a valid chat
\* request for an existing session is answered 429 with the quota code, does
\* not suspend on an inference call and changes neither histories nor count.
C5_QuotaExceededRejects ==
  [][(~WindowElapsed /\ count >= MAX_PROMPTS_PER_WEEK /\ MayBeChatStart) =>
       \A u \in DOMAIN userSessions, m \in Msgs :
         ChatStart(u, m)
         => /\ out'.op = "chat" /\ out'.status = 429 /\ out'.code = QuotaCode
            /\ inflight' = inflight
            /\ userSessions' = userSessions
            /\ count' = count /\ weekStart' = weekStart]_vars

\* a quota rejection answered while sessions hold history
C5_Witness ==
  /\ out.op = "chat" /\ out.status = 429 /\ out.code = QuotaCode
  /\ count = MAX_PROMPTS_PER_WEEK /\ PushedPairs > 0 /\ NumAwaiting = 0

\* C6: a stats request, or a chat request that reaches the quota step, resets
\* count to 0 and weekStart to the current time when at least 7 days have
\* elapsed since weekStart (stats then reports remaining = maximum), and
\* leaves both alone when less than 7 days have elapsed.
C6_LazyReset ==
  [][((out'.op = "stats" /\ Stats)
      \/ (MayBeChatStart /\ \E u \in DOMAIN userSessions, m \in Msgs : ChatStart(u, m)))
       => IF now - weekStart >= WEEK
          THEN /\ count' = 0 /\ weekStart' = now
               /\ Stats => /\ out'.promptsUsed = 0
                           /\ out'.remaining = MAX_PROMPTS_PER_WEEK
                           /\ out'.weekStart = now
          ELSE count' = count /\ weekStart' = weekStart]_vars

\* stats answered right after a reset that cleared a used counter
C6_Witness ==
  /\ out.op = "stats" /\ out.remaining = MAX_PROMPTS_PER_WEEK /\ out.weekStart = now
  /\ weekStart = now /\ now >= WEEK /\ count = 0 /\ PushedPairs > 0

\* C7: stats and health never report a promptsUsed carried over from a
\* window that has elapsed: when 7 days or more have passed since weekStart
\* the reported value is that of the fresh window.
C7_NoStalePromptsUsed ==
  [][((Stats \/ Health) /\ now - weekStart >= WEEK) => out'.promptsUsed = 0]_vars

C9_RejectedBeforeQuota ==
  [][MayBeChatStart =>
       \A u \in UserIdInputs, m \in MsgInputs :
         ((u = NoId \/ m = NoMsg \/ u \notin DOMAIN userSessions) /\ ChatStart(u, m))
         => /\ out'.op = "chat"
            /\ out'.status = IF u = NoId \/ m = NoMsg THEN 400 ELSE 404
            /\ inflight' = inflight
            /\ count' = count /\ weekStart' = weekStart
            /\ userSessions' = userSessions]_vars

\* an unknown session rejected while a reset of a used counter was due
C9_Witness ==
  /\ out.op = "chat" /\ out.status = 404
  /\ now - weekStart >= WEEK /\ count > 0

\* C10: a history changes only in the step that answers 200 to a chat request
\* of that session, and then it ends with the user message followed by the
\* reply, after a suffix of the old history, cut to MAX_HISTORY; every step
\* that answers 200 appends so; every other step leaves the histories alone.
PairAppended(old, new, message, reply) ==
  /\ Len(new) = Min(Len(old) + 2, MAX_HISTORY)
  /\ new[Len(new)] = AssistantMsg(reply)
  /\ new[Len(new) - 1] = UserMsg(message)
  /\ IsSuffix(SubSeq(new, 1, Len(new) - 2), old)
C10_OnlySuccessAppendsPair ==
  [][/\ \A u \in DOMAIN userSessions :
          userSessions'[u] # userSessions[u] =>
            /\ Settled /\ out'.status = 200
            /\ \E q \in BagToSet(inflight) :
                 /\ q.userId = u
                 /\ inflight' = inflight (-) SetToBag({q})
                 /\ PairAppended(userSessions[u], userSessions'[u], q.message, out'.response)
     /\ (Settled /\ out'.status = 200) =>
          \E q \in BagToSet(inflight) :
            /\ inflight' = inflight (-) SetToBag({q})
            /\ PairAppended(userSessions[q.userId], userSessions'[q.userId],
                            q.message, out'.response)
            /\ \A u \in DOMAIN userSessions \ {q.userId} :
                 userSessions'[u] = userSessions[u]
     /\ (Settled /\ out'.status # 200) => userSessions' = userSessions]_vars

\* a failed request answered after an earlier one had appended its pair
C10_Witness ==
  /\ out.op = "chat" /\ out.status = 500
  /\ \E u \in DOMAIN userSessions : Len(userSessions[u]) >= 2 /\ userSessions[u] = pushed[u]

\* C11: the promptsRemaining of a successful chat response is
\* max(0, MAX_PROMPTS_PER_WEEK - count) with the count taken after the
\* increment of this very request, and it is never negative, also when
\* concurrent requests have driven the count above the maximum.
Max(a, b) == IF a > b THEN a ELSE b
C11_RemainingAfterOwnUnit ==
  [][(Settled /\ out'.status = 200) =>
       /\ count' = count + 1
       /\ out'.remaining = Max(0, MAX_PROMPTS_PER_WEEK - count')
       /\ out'.remaining >= 0]_vars

\* a successful response that reports 0 although the count is above the maximum
C11_Witness ==
  /\ out.op = "chat" /\ out.status = 200 /\ out.remaining = 0
  /\ count > MAX_PROMPTS_PER_WEEK

\* C12: every chat request that reaches the inference call eventually gets
\* its response, also when the upstream never answers (a timeout ends the
\* call and the request fails with a 500): no handler stays suspended forever.
C12_EventuallyAnswered == (NumAwaiting > 0) ~> (NumAwaiting = 0)

\* C13: GET /api/user/:userId/history answers 404 without a history exactly
\* for the ids that POST /api/user/new never issued, and for an issued id it
\* answers 200 with the history the session has at that moment; a new session
\* starts empty under an id not in use, and no step removes a session or
\* replaces the history of an existing one by a fresh one.
Issued == DOMAIN pushed
C13_HistoryOfIssuedIds ==
  [][/\ out'.op = "history" =>
          \A u \in UserIdInputs \ {NoId} :
            GetHistory(u) =>
              IF u \in Issued
              THEN out'.status = 200 /\ out'.history = userSessions[u]
              ELSE out'.status = 404 /\ out'.history = <<>>
     /\ DOMAIN userSessions \subseteq DOMAIN userSessions'
     /\ Issued = DOMAIN userSessions
     /\ \A id \in DOMAIN userSessions' \ DOMAIN userSessions :
          /\ userSessions'[id] = <<>>
          /\ out'.op = "new" /\ out'.userId = id
          /\ \A u \in DOMAIN userSessions : userSessions'[u] = userSessions[u]]_vars

\* the history of a session read back after a successful exchange
C13_Witness ==
  /\ out.op = "history" /\ out.status = 200 /\ out.userId \in Issued
  /\ Len(out.history) >= 2 /\ out.history = userSessions[out.userId]

\* C14: when a request settles with a 200 while another request for the same
\* session is still suspended, the history becomes the old history followed by
\* exactly this request's user message and reply, next to each other (cut to
\* the newest MAX_HISTORY), and the other request stays suspended with its
\* own pair still to come; so after both succeed the history holds both
\* pairs, in the order of completion, neither split by the other.
Pair(message, reply) ==
  <<[role |-> "user", content |-> message], [role |-> "assistant", content |-> reply]>>
Concurrent(q) == \E p \in BagToSet(inflight (-) SetToBag({q})) : p.userId = q.userId
C15_SentMessages ==
  [][/\ Admitted =>
          \E q \in BagToSet(inflight') :
            /\ inflight' = inflight (+) SetToBag({q})
            /\ out'.op = "openai"
            /\ LET sent == out'.messages
                   history == userSessions[q.userId]
               IN /\ Len(sent) = Len(history) + 2
                  /\ sent[1] = SystemMsg
                  /\ \A i \in 1..Len(history) : sent[i + 1] = history[i]
                  /\ sent[Len(sent)] = UserMsg(q.message)
     /\ (out'.op = "openai" /\ out.op # "openai") => Admitted]_vars

\* a call that carries a full history of MAX_HISTORY messages
C15_Witness ==
  /\ out.op = "openai" /\ Len(out.messages) = MAX_HISTORY + 2
  /\ \E u \in DOMAIN userSessions :
       /\ out.messages[2] = userSessions[u][1]
       /\ out.messages[MAX_HISTORY + 1] = userSessions[u][MAX_HISTORY]
       /\ out.messages[2] # out.messages[4]

\* C16: sessions are isolated. The step that settles a chat request of
\* session A, with a success or a failure, leaves the history of every other
\* session as it is; every other step (a chat request up to its rejection or
\* its inference call, the creation of a session, the reads) leaves the
\* history of every existing session as it is.
C16_SessionsIsolated ==
  [][/\ \A q \in BagToSet(inflight) :
          (Settled /\ inflight' = inflight (-) SetToBag({q})) =>
            \A B \in DOMAIN userSessions \ {q.userId} : userSessions'[B] = userSessions[B]
     /\ ~Settled =>
          \A B \in DOMAIN userSessions : userSessions'[B] = userSessions[B]]_vars

\* two sessions each hold their own exchange: the chat that completed last
\* left the exchange of the other session in place
C16_Witness ==
  /\ out.op = "chat" /\ out.status = 200 /\ NumAwaiting = 0
  /\ {1, 2} \subseteq DOMAIN userSessions
  /\ Len(userSessions[1]) = 2 /\ userSessions[1] = pushed[1]
  /\ Len(userSessions[2]) = 2 /\ userSessions[2] = pushed[2]

\* C17: the reset check is idempotent within a window. In the state left by a
\* step that ran it (GET /api/stats, or a chat request that passed the quota
\* check) a second run at the same moment finds no reset due and leaves the
\* count and the start of the window as they are; and a run with less than
\* WEEK elapsed since the start of the window changes neither of them.
RanResetWeekly == (out'.op = "stats" /\ Stats) \/ Admitted
C17_ResetIdempotent ==
  [][RanResetWeekly =>
       /\ ~ResetDue'
       /\ CountAfterReset' = count' /\ WeekStartAfterReset' = weekStart'
       /\ now - weekStart < WEEK => count' = count /\ weekStart' = weekStart]_vars

\* the check ran again in the window it had opened: the count of that window
\* is reported and kept
C17_Witness ==
  /\ out.op = "stats" /\ out.promptsUsed = 1 /\ out.weekStart = weekStart
  /\ count = 1 /\ weekStart >= WEEK /\ now - weekStart < WEEK

\* C19: the count changes only by +1 in the step that answers a chat request
\* with a 200, or to 0 by the reset of an elapsed window, so in every state it
\* is the number of chat requests answered with a 200 since the last reset;
\* rejected and failed requests and the history, stats and health reads never
\* increase it.
C19_CountIsSuccessesSinceReset ==
  /\ [](count = succeeded)
  /\ [][/\ count' # count =>
             \/ count' = count + 1 /\ Settled /\ out'.status = 200
             \/ count' = 0 /\ WindowElapsed /\ weekStart' = now /\ ~Settled
        /\ (Settled /\ out'.status = 200) => count' = count + 1
        /\ out'.op \in {"history", "stats", "health", "new"} => count' <= count]_vars

\* one request succeeded before the reset and one after it: the count is 1
C19_Witness ==
  /\ count = 1 /\ succeeded = 1 /\ PushedPairs = 2
  /\ weekStart >= WEEK /\ out.op = "chat" /\ out.status = 200

\* C20: in every reachable state every session history has an even number of
\* messages and alternates user, assistant, user, assistant, ... from its
\* first message on, also once it has been cut to the newest messages and with
\* requests for the same session completing while others are suspended.
RoleAt(i) == IF i % 2 = 1 THEN "user" ELSE "assistant"
C20_HistoryAlternates ==
  \A u \in DOMAIN userSessions :
    /\ Len(userSessions[u]) % 2 = 0
    /\ \A i \in 1..Len(userSessions[u]) : userSessions[u][i].role = RoleAt(i)

\* a history that was cut by the request that just completed
C20_Witness ==
  /\ out.op = "chat" /\ out.status = 200
  /\ \E u \in DOMAIN userSessions :
       /\ Len(pushed[u]) > Len(userSessions[u])
       /\ userSessions[u][1].role = "user"
       /\ userSessions[u][1].content # userSessions[u][3].content

\* C18: the page serializes its chat requests. At most one POST /api/chat of
\* the page is awaiting its response at any time, isLoading is true as long as
\* one is, and while isLoading is true no step of the page sends a request.
C18_ClientSerializes ==
  /\ [](client.fetching \in {0, 1})
  /\ [](client.fetching = 1 <=> client.isLoading)
  /\ [][client.isLoading => client'.fetching <= client.fetching]_vars

\* the page awaits the response to its second request, sent after the first
\* exchange was completed
C18_Witness ==
  /\ client.isLoading /\ client.fetching = 1 /\ NumAwaiting = 1
  /\ Len(client.messages) = 3 /\ client.messages[2].role = "assistant"

\* C21: the error state of the page is absorbing. From a state where error is
\* set, every step leaves error as it is, the input and the send button are
\* still disabled afterwards, the text of the input and the list of messages
\* are unchanged and no chat request of the page is sent or under way: the
\* server neither starts nor resumes a chat handler for it.
ErrorSet == client.error # NoError
C21_ErrorAbsorbing ==
  [][ErrorSet =>
       /\ client'.error = client.error
       /\ ~InputEnabled(client') /\ ~ButtonEnabled(client')
       /\ client'.inputMessage = client.inputMessage
       /\ client'.messages = client.messages
       /\ client.fetching = 0 /\ client'.fetching = 0 /\ ~client'.isLoading
       /\ inflight' = inflight /\ out' = out]_vars

\* the page was stopped by the quota error and is still stopped when the
\* window of the quota has elapsed
C21_Witness ==
  /\ client.error = "quota" /\ client.isInitialized /\ ~client.isLoading
  /\ Len(client.messages) >= 3 /\ client.inputMessage = NoMsg
  /\ WindowElapsed

TypeOK ==
  /\ MAX_PROMPTS_PER_WEEK \in Nat
  /\ DOMAIN userSessions \subseteq Ids
  /\ DOMAIN pushed = DOMAIN userSessions
  /\ count \in Nat
  /\ now \in 0..MaxTime
  /\ weekStart \in 0..now
  /\ passed \in Nat
  /\ IsABag(inflight)
  /\ \A q \in BagToSet(inflight) : q.userId \in DOMAIN userSessions /\ q.message \in HistMsgs

====
